---- MODULE Spec2Model ----
\* Model of the deploy-everything registry (src/src/deployments.js): the
\* persisted manifest, add / remove / contains / list, the chain-qualified
\* module resolution and the sequential run driver.
\*
\* Paths and file names are sequences of one-character strings, so that the
\* string operations of the code (split, join, startsWith, concatenation) are
\* computed as the code computes them.
EXTENDS Integers, Sequences, FiniteSets, TLC

\* ---------------------------------------------------------------- strings

\* String.prototype.split(sep) for a one-character separator: always at
\* least one part, "" included.
RECURSIVE Split(_, _)
Split(s, sep) ==
    IF s = <<>> THEN << <<>> >>
    ELSE LET rest == Split(Tail(s), sep)
         IN  IF Head(s) = sep
             THEN << <<>> >> \o rest
             ELSE << <<Head(s)>> \o Head(rest) >> \o Tail(rest)

\* Array.prototype.join(sep).
RECURSIVE Join(_, _)
Join(parts, sep) ==
    IF parts = <<>> THEN <<>>
    ELSE IF Len(parts) = 1 THEN parts[1]
    ELSE parts[1] \o <<sep>> \o Join(Tail(parts), sep)

\* String.prototype.startsWith.
StartsWith(s, prefix) ==
    /\ Len(s) >= Len(prefix)
    /\ SubSeq(s, 1, Len(prefix)) = prefix

\* The segments of a path after "." and ".." and empty segments are resolved.
RECURSIVE NormalizeSegs(_, _)
NormalizeSegs(segs, acc) ==
    IF segs = <<>> THEN acc
    ELSE LET s == Head(segs)
         IN  IF s = <<>> \/ s = <<".">> THEN NormalizeSegs(Tail(segs), acc)
             ELSE IF s = <<".", ".">>
                  THEN NormalizeSegs(Tail(segs),
                           IF acc = <<>> THEN acc ELSE SubSeq(acc, 1, Len(acc) - 1))
                  ELSE NormalizeSegs(Tail(segs), Append(acc, s))

\* path.resolve(root, p) of Node: p itself when absolute, root/p otherwise,
\* normalized.
pathResolve(root, p) ==
    LET full == IF StartsWith(p, <<"/">>) THEN p ELSE root \o <<"/">> \o p
    IN  <<"/">> \o Join(NormalizeSegs(Split(full, "/"), <<>>), "/")

\* ------------------------------------------------------------ environment

\* hre.config.paths.root, the project root (no trailing separator).
Root == <<"/", "p">>

\* getProjectPrefix(hre) of ./common.
getProjectPrefix == Root

\* normalizeByProjectPrefix(file, hre) of ./common: the path resolved against
\* the project root; inside the root, the remainder and stripped = true;
\* otherwise the resolved absolute path and stripped = false.
normalizeByProjectPrefix(file) ==
    LET resolved == pathResolve(Root, file)
        prefix   == getProjectPrefix \o <<"/">>
    IN  IF StartsWith(resolved, prefix) /\ Len(resolved) > Len(prefix)
        THEN [file |-> SubSeq(resolved, Len(prefix) + 1, Len(resolved)), stripped |-> TRUE]
        ELSE [file |-> resolved, stripped |-> FALSE]

\* The module paths callers pass to add / remove / contains.
PathM    == <<"m", ".", "j">>
PathAbsM == <<"/", "p", "/", "m", ".", "j">>
PathN    == <<"n", ".", "j">>
PathOut  == <<"/", "x", ".", "j">>
InputPaths == {PathM, PathAbsM, PathN, PathOut}

\* The (file, external) arguments of the calls: the project's m.j under a
\* relative and an absolute path, the package m.j, the project's n.j, and a
\* path outside the project under both flags.
InputCalls ==
    { <<PathM, FALSE>>, <<PathAbsM, FALSE>>, <<PathM, TRUE>>, <<PathN, FALSE>>,
      <<PathOut, FALSE>>, <<PathOut, TRUE>> }

\* The chain ids a network may have, and the one hre.common.getChainId()
\* reports for the network of this environment.
ChainIds == {<<"7">>, <<"1", "3">>}
ActiveChainId == <<"7">>

\* The files that may exist (be loadable by require) at some time.
FileUniverse ==
    { <<"/", "p", "/", "m", ".", "j">>,
      <<"/", "p", "/", "m", "-", "7", ".", "j">>,
      <<"m", ".", "j">>,
      <<"/", "p", "/", "n", ".", "j">> }

\* ------------------------------------------------------------------ state

VARIABLES
    manifest,   \* ignition/deploy-everything.json: [kind, contents]
    loadable,   \* the files require() can load now
    last,       \* the last completed call and its outcome
    run,        \* the run in progress: [pc, reset, deploymentId, modules, idx]
    calls,      \* the calls made to the external engine by the current run
    fnIn,       \* addChainId / importModule on their own: the input
    fnOut,      \* addChainId / importModule on their own: the result
    journal,    \* the external engine's journal of executed deployments
    procs       \* the processes that call add / remove at the same time

vars == <<manifest, loadable, last, run, calls, fnIn, fnOut, journal, procs>>

NoManifest == [kind |-> "none", contents |-> <<>>]

Descriptor(filename, external) == [filename |-> filename, external |-> external]

\* ----------------------------------------------------------- the registry

\* A load whose catch branch returns a document without contents.
loadWithoutContents(m) ==
    IF m.kind \in {"missing", "unparseable"}
    THEN [hasContents |-> FALSE, contents |-> <<>>]
    ELSE [hasContents |-> m.kind = "list", contents |-> m.contents]

\* loadDeployEverythingSettings: the parsed document, or {contents: []} when
\* the file cannot be read or parsed.
loadDeployEverythingSettings(m) ==
    IF m.kind \in {"missing", "unparseable"}
    THEN [hasContents |-> TRUE, contents |-> <<>>]
    ELSE [hasContents |-> m.kind = "list", contents |-> m.contents]

\* saveDeployEverythingSettings: the whole document is overwritten.
saveDeployEverythingSettings(settings) ==
    [kind     |-> IF settings.hasContents THEN "list" ELSE "nolist",
     contents |-> settings.contents]

\* settings.contents ||= []
DefaultContents(settings) ==
    [hasContents |-> TRUE,
     contents    |-> IF settings.hasContents THEN settings.contents ELSE <<>>]

\* require(name): succeeds exactly on the files that can be loaded now.
Require(name, ld) == name \in ld

\* Array.prototype.find on the identity key: the index of the first
\* descriptor with this filename and external flag, 0 when there is none.
FindEntry(contents, module, external) ==
    LET hits == {i \in 1..Len(contents) :
                    contents[i].filename = module /\ contents[i].external = external}
    IN  IF hits = {} THEN 0 ELSE CHOOSE i \in hits : \A j \in hits : i <= j

\* A validation that stores the in-project path as the caller wrote it.
AddValidateStoringGiven(file, external, ld) ==
    IF external
    THEN IF StartsWith(file, <<"/">>)
         THEN [error |-> "absolute", module |-> <<>>]
         ELSE IF ~Require(file, ld)
              THEN [error |-> "requireExternal", module |-> <<>>]
              ELSE [error |-> "none", module |-> file]
    ELSE LET normalized == normalizeByProjectPrefix(file)
         IN  IF ~normalized.stripped
             THEN [error |-> "notInProject", module |-> <<>>]
             ELSE IF ~Require(getProjectPrefix \o <<"/">> \o normalized.file, ld)
                  THEN [error |-> "requireProject", module |-> <<>>]
                  ELSE [error |-> "none", module |-> file]

\* A validation that attempts the import before it looks at the path.
AddValidateImportFirst(file, external, ld) ==
    IF external
    THEN IF ~Require(file, ld)
         THEN [error |-> "requireExternal", module |-> <<>>]
         ELSE IF StartsWith(file, <<"/">>)
              THEN [error |-> "absolute", module |-> <<>>]
              ELSE [error |-> "none", module |-> file]
    ELSE LET normalized == normalizeByProjectPrefix(file)
         IN  IF ~Require(pathResolve(Root, file), ld)
             THEN [error |-> "requireProject", module |-> <<>>]
             ELSE IF ~normalized.stripped
                  THEN [error |-> "notInProject", module |-> <<>>]
                  ELSE [error |-> "none", module |-> normalized.file]

\* Lines 51-81 of addDeployEverythingModule: the validation of the path and
\* the import attempt; the stored module name when both pass.
AddValidate(file, external, ld) ==
    IF external
    THEN IF StartsWith(file, <<"/">>)
         THEN [error |-> "absolute", module |-> <<>>]
         ELSE IF ~Require(file, ld)
              THEN [error |-> "requireExternal", module |-> <<>>]
              ELSE [error |-> "none", module |-> file]
    ELSE LET normalized == normalizeByProjectPrefix(file)
         IN  IF ~normalized.stripped
             THEN [error |-> "notInProject", module |-> <<>>]
             ELSE IF ~Require(getProjectPrefix \o <<"/">> \o normalized.file, ld)
                  THEN [error |-> "requireProject", module |-> <<>>]
                  ELSE [error |-> "none", module |-> normalized.file]

\* A check that looks for the key under the opposite external flag.
AddIsDuplicateWrongFlag(contents, module, external) ==
    FindEntry(contents, module, ~external) # 0

\* A check that never finds the key.
AddIsDuplicateNever(contents, module, external) == FALSE

\* Lines 86-88: the identity key is already in the registry.
AddIsDuplicate(contents, module, external) ==
    FindEntry(contents, module, external) # 0

\* An append that puts the new descriptor at the front.
AddAppendFront(contents, module, external) ==
    <<Descriptor(module, external)>> \o contents

\* An append that leaves the new descriptor out.
AddAppendNothing(contents, module, external) == contents

\* Line 89: [...settings.contents, {filename: module, external: external}].
AddAppend(contents, module, external) ==
    Append(contents, Descriptor(module, external))

\* A duplicate add that saves the appended registry before it throws.
AddRejectSaving(m, contents, module, external) ==
    [result   |-> "already",
     manifest |-> saveDeployEverythingSettings(
                      [hasContents |-> TRUE,
                       contents    |-> AddAppend(contents, module, external)])]

\* Line 88: the duplicate add throws; nothing is saved.
AddReject(m, contents, module, external) ==
    [result |-> "already", manifest |-> m]

\* addDeployEverythingModule(file, external, hre) on manifest m with the
\* loadable files ld: the outcome and the manifest afterwards.
addDeployEverythingModule(file, external, m, ld) ==
    LET v == AddValidate(file, external, ld)
    IN  IF v.error # "none"
        THEN [result |-> v.error, manifest |-> m]
        ELSE LET settings == DefaultContents(loadDeployEverythingSettings(m))
             IN  IF AddIsDuplicate(settings.contents, v.module, external)
                 THEN AddReject(m, settings.contents, v.module, external)
                 ELSE [result   |-> "ok",
                       manifest |-> saveDeployEverythingSettings(
                           [settings EXCEPT !.contents =
                               AddAppend(settings.contents, v.module, external)])]

\* Line 101 and line 197: the module name remove and contains look for.
LookupModule(file, external) ==
    IF external THEN file ELSE normalizeByProjectPrefix(file).file

\* A filter that drops every descriptor with the filename, whatever its flag.
RemoveFilterByName(contents, i) ==
    SelectSeq(contents, LAMBDA e : e.filename # contents[i].filename)

\* Line 110: settings.contents.filter((e) => e !== element), element being
\* the object found at index i.
RemoveFilter(contents, i) ==
    SubSeq(contents, 1, i - 1) \o SubSeq(contents, i + 1, Len(contents))

\* A remove that returns without an error when the entry is absent.
removeSilently(file, external, m) ==
    LET module   == LookupModule(file, external)
        settings == DefaultContents(loadDeployEverythingSettings(m))
        i        == FindEntry(settings.contents, module, external)
    IN  IF i = 0
        THEN [result |-> "ok", manifest |-> m]
        ELSE [result   |-> "ok",
              manifest |-> saveDeployEverythingSettings(
                  [settings EXCEPT !.contents = RemoveFilter(settings.contents, i)])]

\* removeDeployEverythingModule(file, external, hre) on manifest m.
removeDeployEverythingModule(file, external, m) ==
    LET module   == LookupModule(file, external)
        settings == DefaultContents(loadDeployEverythingSettings(m))
        i        == FindEntry(settings.contents, module, external)
    IN  IF i = 0
        THEN [result |-> "notAdded", manifest |-> m]
        ELSE [result   |-> "ok",
              manifest |-> saveDeployEverythingSettings(
                  [settings EXCEPT !.contents = RemoveFilter(settings.contents, i)])]

\* A lookup that matches the module name whatever the external flag.
isModuleInDeployEverythingByName(file, external, m) ==
    LET module   == LookupModule(file, external)
        settings == loadDeployEverythingSettings(m)
        contents == IF settings.hasContents THEN settings.contents ELSE <<>>
    IN  \E i \in 1..Len(contents) : contents[i].filename = module

\* isModuleInDeployEverything(file, external, hre) on manifest m.
isModuleInDeployEverything(file, external, m) ==
    LET module   == LookupModule(file, external)
        settings == loadDeployEverythingSettings(m)
        contents == IF settings.hasContents THEN settings.contents ELSE <<>>
    IN  FindEntry(contents, module, external) # 0

\* ------------------------------------------------------ module resolution

\* addChainId(filename, chainId): split on ".", pop the last part as the
\* extension, join the rest and append -chainId.extension.
addChainId(filename, chainId) ==
    LET parts     == Split(filename, ".")
        extension == parts[Len(parts)]
        rest      == SubSeq(parts, 1, Len(parts) - 1)
    IN  Join(rest, ".") \o <<"-">> \o chainId \o <<".">> \o extension

\* Lines 154-156: the name the chain-qualified attempt requires.
VariantName(filename, external, chainId) ==
    IF external
    THEN addChainId(filename, chainId)
    ELSE addChainId(pathResolve(Root, filename), chainId)

\* Lines 162-164: the name the general attempt requires.
BaseName(filename, external) ==
    IF external THEN filename ELSE pathResolve(Root, filename)

\* A resolution that tries the base module first.
importModuleBaseFirst(filename, external, chainId, ld) ==
    IF Require(BaseName(filename, external), ld)
    THEN [ok |-> TRUE, module |-> BaseName(filename, external),
          treated |-> "", path |-> <<>>]
    ELSE IF Require(VariantName(filename, external, chainId), ld)
    THEN [ok |-> TRUE, module |-> VariantName(filename, external, chainId),
          treated |-> "", path |-> <<>>]
    ELSE [ok |-> FALSE, module |-> <<>>,
          treated |-> IF external THEN "external" ELSE "in-project",
          path |-> filename]

\* importModule(filename, external, chainId, hre): the loaded module (named
\* by the file it was loaded from), or the error thrown.
importModule(filename, external, chainId, ld) ==
    IF Require(VariantName(filename, external, chainId), ld)
    THEN [ok |-> TRUE, module |-> VariantName(filename, external, chainId),
          treated |-> "", path |-> <<>>]
    ELSE IF Require(BaseName(filename, external), ld)
    THEN [ok |-> TRUE, module |-> BaseName(filename, external),
          treated |-> "", path |-> <<>>]
    ELSE [ok |-> FALSE, module |-> <<>>,
          treated |-> IF external THEN "external" ELSE "in-project",
          path |-> filename]

\* The ids of module.results of the module loaded from a file: the module
\* of the project's n.j declares no results, every other module one future,
\* whose id names the file.
ModuleResults(loadedFile) ==
    IF loadedFile = <<"/", "p", "/", "n", ".", "j">> THEN <<>> ELSE <<loadedFile>>

\* Lines 121-129: one entry of the list; a module that cannot be imported
\* is listed with no results.
ListEntry(e, chainId, ld) ==
    LET r == importModule(e.filename, e.external, chainId, ld)
    IN  [filename      |-> e.filename,
         external      |-> e.external,
         moduleResults |-> IF r.ok THEN ModuleResults(r.module) ELSE <<>>]

\* A listing that leaves out the descriptors whose module cannot be imported.
listDroppingUnresolvable(m, chainId, ld) ==
    LET settings == loadDeployEverythingSettings(m)
        kept     == SelectSeq(settings.contents,
                        LAMBDA e : importModule(e.filename, e.external, chainId, ld).ok)
    IN  IF ~settings.hasContents
        THEN [ok |-> FALSE, entries |-> <<>>]
        ELSE [ok |-> TRUE,
              entries |-> [i \in 1..Len(kept) |-> ListEntry(kept[i], chainId, ld)]]

\* listDeployEverythingModules(hre) on manifest m: .contents.map(...) throws
\* a TypeError when the parsed document has no contents.
listDeployEverythingModules(m, chainId, ld) ==
    LET settings == loadDeployEverythingSettings(m)
    IN  IF ~settings.hasContents
        THEN [ok |-> FALSE, entries |-> <<>>]
        ELSE [ok |-> TRUE,
              entries |-> [i \in 1..Len(settings.contents) |->
                              ListEntry(settings.contents[i], chainId, ld)]]

\* ---------------------------------------------------------------- calls

\* The deploymentArgs.deploymentId values a caller passes ("" for none).
DeploymentIds == {<<>>, <<"d">>}

\* The processes that may be inside a call of add or remove together.
Procs == {1, 2}

\* A process that is in no call.
NoProc ==
    [pc |-> "idle", op |-> "none", file |-> <<>>, external |-> FALSE,
     module |-> <<>>, loaded |-> <<>>, doc |-> NoManifest, found |-> NoManifest,
     result |-> "none"]

\* writer is the process that last opened or wrote the manifest file.
NoProcs == [st |-> [p \in Procs |-> NoProc], writer |-> 0]

\* The journal of an engine that has executed nothing.
NoJournal ==
    [entries |-> [d \in DeploymentIds |-> <<>>], count |-> 0, atStart |-> <<>>,
     prev |-> [pc |-> "idle", idx |-> 0, deploymentId |-> <<>>]]

NoCall ==
    [op |-> "none", file |-> <<>>, external |-> FALSE, result |-> "none",
     found |-> FALSE, listed |-> <<>>, before |-> NoManifest, prior |-> NoManifest,
     treated |-> "", path |-> <<>>, surface |-> "core", files |-> {}]

IdleRun ==
    [pc |-> "idle", reset |-> FALSE, deploymentId |-> <<>>, modules |-> <<>>, idx |-> 0]

NoIn == [filename |-> <<>>, external |-> FALSE, chainId |-> <<>>, ld |-> {}]

NoOut ==
    [op |-> "none", value |-> <<>>, result |-> "",
     resolved |-> [ok |-> FALSE, module |-> <<>>, treated |-> "", path |-> <<>>]]

\* No run is between two of its steps.
Quiet == run.pc \in {"idle", "done", "failed"}

\* The manifest before the previous call, when that call was a successful
\* add with these very arguments.
PriorOf(file, external) ==
    IF last.op = "add" /\ last.result = "ok" /\ last.file = file /\ last.external = external
    THEN last.before
    ELSE NoManifest

Init ==
    /\ manifest \in {[kind |-> k, contents |-> <<>>] :
                        k \in {"missing", "unparseable", "nolist", "list"}}
    /\ loadable \in SUBSET FileUniverse
    /\ last = NoCall
    /\ run = IdleRun
    /\ calls = <<>>
    /\ fnIn = NoIn
    /\ fnOut = NoOut
    /\ journal = NoJournal
    /\ procs = NoProcs

\* A module file is created or deleted (or starts / stops loading), at any
\* time, also between two steps of a run.
Toggle(f) ==
    /\ loadable' = (loadable \ {f}) \cup ({f} \ loadable)
    /\ UNCHANGED <<manifest, last, run, calls, fnIn, fnOut, journal, procs>>

Add(file, external) ==
    /\ Quiet
    /\ LET r == addDeployEverythingModule(file, external, manifest, loadable)
       IN  /\ manifest' = r.manifest
           /\ last' = [NoCall EXCEPT !.op = "add", !.file = file, !.external = external,
                                     !.result = r.result, !.before = manifest,
                                     !.prior = PriorOf(file, external)]
    /\ run' = IdleRun
    /\ calls' = <<>>
    /\ UNCHANGED <<loadable, fnIn, fnOut, journal, procs>>

Remove(file, external) ==
    /\ Quiet
    /\ LET r == removeDeployEverythingModule(file, external, manifest)
       IN  /\ manifest' = r.manifest
           /\ last' = [NoCall EXCEPT !.op = "remove", !.file = file, !.external = external,
                                     !.result = r.result, !.before = manifest,
                                     !.prior = PriorOf(file, external)]
    /\ run' = IdleRun
    /\ calls' = <<>>
    /\ UNCHANGED <<loadable, fnIn, fnOut, journal, procs>>

Contains(file, external) ==
    /\ Quiet
    /\ last' = [NoCall EXCEPT !.op = "contains", !.file = file, !.external = external,
                              !.result = "ok", !.before = manifest,
                              !.found = isModuleInDeployEverything(file, external, manifest)]
    /\ run' = IdleRun
    /\ calls' = <<>>
    /\ UNCHANGED <<manifest, loadable, fnIn, fnOut, journal, procs>>

\* A list that writes back the settings it loaded.
ListSaving ==
    /\ Quiet
    /\ LET l == listDeployEverythingModules(manifest, ActiveChainId, loadable)
       IN  last' = [NoCall EXCEPT !.op = "list", !.before = manifest,
                                  !.result = IF l.ok THEN "ok" ELSE "typeError",
                                  !.listed = l.entries]
    /\ manifest' = saveDeployEverythingSettings(
                       DefaultContents(loadDeployEverythingSettings(manifest)))
    /\ run' = IdleRun
    /\ calls' = <<>>
    /\ UNCHANGED <<loadable, fnIn, fnOut, journal, procs>>

List ==
    /\ Quiet
    /\ LET l == listDeployEverythingModules(manifest, ActiveChainId, loadable)
       IN  last' = [NoCall EXCEPT !.op = "list", !.before = manifest,
                                  !.result = IF l.ok THEN "ok" ELSE "typeError",
                                  !.listed = l.entries]
    /\ run' = IdleRun
    /\ calls' = <<>>
    /\ UNCHANGED <<manifest, loadable, fnIn, fnOut, journal, procs>>

\* ------------------------------------------------------------------ run

Event(ev, arg) == [ev |-> ev, arg |-> arg]

\* A driver that resets the journal whatever the flag says.
ResetAlways(reset) == TRUE

\* A driver that reads the flag the wrong way round.
ResetWhenNotRequested(reset) == ~reset

\* Line 180: if (!!reset).
ResetRequested(reset) == reset

\* A loop that does not wait for the reset call to return.
LoopMayStartUnawaited(pc, reset) ==
    \/ pc \in {"loop", "resetting"}
    \/ pc = "listed" /\ ~ResetRequested(reset)

\* A loop that does not wait for the deploy call to return.
LoopMayStartWhileDeploying(pc, reset) ==
    \/ pc \in {"loop", "deploying"}
    \/ pc = "listed" /\ ~ResetRequested(reset)

\* Lines 180-182: the loop starts once the reset, if requested, has returned.
LoopMayStart(pc, reset) ==
    \/ pc = "loop"
    \/ pc = "listed" /\ ~ResetRequested(reset)

\* Lines 178-179: the registry is listed; the listing is the run's module list.
RunStartStep(reset, deploymentId) ==
    /\ Quiet
    /\ LET l == listDeployEverythingModules(manifest, ActiveChainId, loadable)
           r == [IdleRun EXCEPT !.reset = reset, !.deploymentId = deploymentId,
                                !.modules = l.entries]
           c == [NoCall EXCEPT !.op = "run", !.before = manifest]
       IN  IF l.ok
           THEN /\ run' = [r EXCEPT !.pc = "listed"]
                /\ last' = [c EXCEPT !.result = "running"]
           ELSE /\ run' = [r EXCEPT !.pc = "failed"]
                /\ last' = [c EXCEPT !.result = "typeError"]
    /\ calls' = <<>>
    /\ UNCHANGED <<manifest, loadable, fnIn, fnOut, procs>>

\* The listing of a run, seen without the engine's journal.
RunStart(reset, deploymentId) ==
    RunStartStep(reset, deploymentId) /\ UNCHANGED journal

\* Line 180: hre.ignition.resetDeployment(deploymentArgs.deploymentId, hre)
\* is called and awaited.
RunResetCall ==
    /\ run.pc = "listed"
    /\ ResetRequested(run.reset)
    /\ calls' = Append(calls, Event("reset", run.deploymentId))
    /\ run' = [run EXCEPT !.pc = "resetting"]
    /\ UNCHANGED <<manifest, loadable, last, fnIn, fnOut, journal, procs>>

\* The engine ends the reset: it returns, or it throws and the run fails.
RunResetReturnStep(ok) ==
    /\ run.pc = "resetting"
    /\ IF ok
       THEN /\ calls' = Append(calls, Event("resetDone", run.deploymentId))
            /\ run' = [run EXCEPT !.pc = "loop"]
            /\ last' = last
       ELSE /\ calls' = Append(calls, Event("resetFail", run.deploymentId))
            /\ run' = [run EXCEPT !.pc = "failed"]
            /\ last' = [last EXCEPT !.result = "engineError"]
    /\ UNCHANGED <<manifest, loadable, fnIn, fnOut, procs>>

\* The end of the reset call, seen without the engine's journal.
RunResetReturn(ok) ==
    RunResetReturnStep(ok) /\ UNCHANGED journal

\* A loop that passes over a module it cannot import.
RunLoopSkipping ==
    /\ LoopMayStart(run.pc, run.reset)
    /\ IF run.idx >= Len(run.modules)
       THEN /\ run' = [run EXCEPT !.pc = "done"]
            /\ last' = [last EXCEPT !.result = "ok"]
            /\ calls' = calls
       ELSE LET e == run.modules[run.idx + 1]
                r == importModule(e.filename, e.external, ActiveChainId, loadable)
            IN  IF r.ok
                THEN /\ calls' = Append(calls, Event("deploy", r.module))
                     /\ run' = [run EXCEPT !.pc = "deploying"]
                     /\ last' = last
                ELSE /\ calls' = calls
                     /\ run' = [run EXCEPT !.pc = "loop", !.idx = run.idx + 1]
                     /\ last' = [last EXCEPT !.result = "importError",
                                             !.treated = r.treated, !.path = r.path]
    /\ UNCHANGED <<manifest, loadable, fnIn, fnOut, journal, procs>>

\* Lines 181-183: the next module is imported and hre.ignition.deploy is
\* called with it; past the last module the run ends.
RunLoop ==
    /\ LoopMayStart(run.pc, run.reset)
    /\ IF run.idx >= Len(run.modules)
       THEN /\ run' = [run EXCEPT !.pc = "done"]
            /\ last' = [last EXCEPT !.result = "ok"]
            /\ calls' = calls
       ELSE LET e == run.modules[run.idx + 1]
                r == importModule(e.filename, e.external, ActiveChainId, loadable)
            IN  IF r.ok
                THEN /\ calls' = Append(calls, Event("deploy", r.module))
                     /\ run' = [run EXCEPT !.pc = "deploying"]
                     /\ last' = last
                ELSE /\ calls' = calls
                     /\ run' = [run EXCEPT !.pc = "failed"]
                     /\ last' = [last EXCEPT !.result = "importError",
                                             !.treated = r.treated, !.path = r.path]
    /\ UNCHANGED <<manifest, loadable, fnIn, fnOut, journal, procs>>

\* A loop that catches the engine's error and goes on with the next module.
RunDeployReturnSwallowing(ok) ==
    /\ run.pc = "deploying"
    /\ calls' = Append(calls, Event(IF ok THEN "deployDone" ELSE "deployFail", <<>>))
    /\ run' = [run EXCEPT !.pc = "loop", !.idx = run.idx + 1]
    /\ last' = last
    /\ UNCHANGED <<manifest, loadable, fnIn, fnOut, journal, procs>>

\* The engine ends the deploy call: it returns and the loop goes on, or it
\* throws and the run fails.
RunDeployReturnStep(ok) ==
    /\ run.pc = "deploying"
    /\ IF ok
       THEN /\ calls' = Append(calls, Event("deployDone", <<>>))
            /\ run' = [run EXCEPT !.pc = "loop", !.idx = run.idx + 1]
            /\ last' = last
       ELSE /\ calls' = Append(calls, Event("deployFail", <<>>))
            /\ run' = [run EXCEPT !.pc = "failed"]
            /\ last' = [last EXCEPT !.result = "engineError"]
    /\ UNCHANGED <<manifest, loadable, fnIn, fnOut, procs>>

\* The end of the deploy call, seen without the engine's journal.
RunDeployReturn(ok) ==
    RunDeployReturnStep(ok) /\ UNCHANGED journal

Next ==
    \/ \E f \in FileUniverse : Toggle(f)
    \/ \E c \in InputCalls : Add(c[1], c[2])
    \/ \E c \in InputCalls : Remove(c[1], c[2])
    \/ \E c \in InputCalls : Contains(c[1], c[2])
    \/ List
    \/ \E reset \in BOOLEAN, deploymentId \in DeploymentIds :
           RunStart(reset, deploymentId)
    \/ RunResetCall
    \/ \E ok \in BOOLEAN : RunResetReturn(ok)
    \/ RunLoop
    \/ \E ok \in BOOLEAN : RunDeployReturn(ok)

Spec == Init /\ [][Next]_vars

\* ------------------------------------------- runs on a journaling engine

\* The most deployments the engine executes in one behaviour.
MaxDeployments == 4

\* The modules a journal holds, in the order they were deployed.
JournalModules(entries) == [i \in 1..Len(entries) |-> entries[i].module]

Journaled(entries, module) ==
    \E i \in 1..Len(entries) : entries[i].module = module

\* The registries of the project modules m.j and n.j that adds can build.
JournalManifests ==
    { [kind |-> "list", contents |-> c] :
        c \in { <<>>, <<Descriptor(PathM, FALSE)>>,
                <<Descriptor(PathM, FALSE), Descriptor(PathN, FALSE)>>,
                <<Descriptor(PathN, FALSE), Descriptor(PathM, FALSE)>> } }

JournalFiles ==
    { <<"/", "p", "/", "m", ".", "j">>, <<"/", "p", "/", "n", ".", "j">> }

InitJournal ==
    /\ manifest \in JournalManifests
    /\ loadable \in SUBSET JournalFiles
    /\ last = NoCall
    /\ run = IdleRun
    /\ calls = <<>>
    /\ fnIn = NoIn
    /\ fnOut = NoOut
    /\ journal = NoJournal
    /\ procs = NoProcs

\* A run starts; the journal of its deployment and the outcome of the run
\* before it are noted.
JournalRunStart(reset, deploymentId) ==
    /\ journal.count + Len(manifest.contents) <= MaxDeployments
    /\ RunStartStep(reset, deploymentId)
    /\ journal' = [journal EXCEPT
                      !.atStart = journal.entries[deploymentId],
                      !.prev = [pc |-> run.pc, idx |-> run.idx,
                                deploymentId |-> run.deploymentId]]

\* hre.ignition.resetDeployment ends: a reset that returns has wiped the
\* journal of the deployment.
JournalResetReturn(ok) ==
    /\ RunResetReturnStep(ok)
    /\ journal' = IF ok
                  THEN [journal EXCEPT !.entries[run.deploymentId] = <<>>]
                  ELSE journal

\* hre.ignition.deploy ends: the engine is idempotent per module within a
\* deployment, so a deploy that returns has executed the module only when
\* the journal did not hold it, and has journaled it with a new address.
JournalDeployReturn(ok) ==
    /\ RunDeployReturnStep(ok)
    /\ LET d      == run.deploymentId
           module == calls[Len(calls)].arg
       IN  journal' =
               IF ok /\ ~Journaled(journal.entries[d], module)
               THEN [journal EXCEPT
                        !.entries[d] = Append(@, [module  |-> module,
                                                  address |-> journal.count + 1]),
                        !.count = @ + 1]
               ELSE journal

NextJournal ==
    \/ \E reset \in BOOLEAN, deploymentId \in DeploymentIds :
           JournalRunStart(reset, deploymentId)
    \/ RunResetCall
    \/ \E ok \in BOOLEAN : JournalResetReturn(ok)
    \/ RunLoop
    \/ \E ok \in BOOLEAN : JournalDeployReturn(ok)

SpecJournal == InitJournal /\ [][NextJournal]_vars

\* ---------------------------------------- the task and the hre wrappers

\* JavaScript values as the functions of deployments.js receive them: the
\* runtime environment, a string, a boolean, a deployment arguments object.
DynHre == [t |-> "hre"]
DynStr(v) == [t |-> "str", v |-> v]
DynBool(v) == [t |-> "bool", v |-> v]
DynArgs(deploymentId) == [t |-> "args", deploymentId |-> deploymentId]

\* !!value
Truthy(value) ==
    IF value.t = "bool" THEN value.v
    ELSE IF value.t = "str" THEN value.v # <<>>
    ELSE TRUE

\* value.config.paths.root and value.common.getChainId() exist only on the
\* runtime environment; on anything else the property read throws TypeError.
IsHre(value) == value.t = "hre"

\* addDeployEverythingModule(file, external, hre) on the values it is given:
\* file.startsWith (line 54) and the normalizer (line 69) need a string, the
\* normalizer and the load of the settings (line 84) need the environment.
addDeployEverythingModuleCall(file, external, hre, m, ld) ==
    LET ext == Truthy(external)
    IN  IF file.t # "str" \/ (~ext /\ ~IsHre(hre))
        THEN [result |-> "typeError", manifest |-> m]
        ELSE LET v == AddValidate(file.v, ext, ld)
             IN  IF v.error # "none"
                 THEN [result |-> v.error, manifest |-> m]
                 ELSE IF ~IsHre(hre)
                      THEN [result |-> "typeError", manifest |-> m]
                      ELSE addDeployEverythingModule(file.v, ext, m, ld)

\* removeDeployEverythingModule(file, external, hre) on the values it is
\* given: line 101 normalizes an in-project file, line 104 loads the settings
\* of the environment, line 106 finds no descriptor named by a non-string.
removeDeployEverythingModuleCall(file, external, hre, m) ==
    LET ext == Truthy(external)
    IN  IF ~IsHre(hre) \/ (~ext /\ file.t # "str")
        THEN [result |-> "typeError", manifest |-> m]
        ELSE IF file.t # "str"
             THEN [result |-> "notAdded", manifest |-> m]
             ELSE removeDeployEverythingModule(file.v, ext, m)

\* isModuleInDeployEverything(file, external, hre) on the values it is given.
isModuleInDeployEverythingCall(file, external, hre, m) ==
    LET ext == Truthy(external)
    IN  IF ~IsHre(hre) \/ (~ext /\ file.t # "str")
        THEN [result |-> "typeError", found |-> FALSE]
        ELSE IF file.t # "str"
             THEN [result |-> "ok", found |-> FALSE]
             ELSE [result |-> "ok", found |-> isModuleInDeployEverything(file.v, ext, m)]

\* runDeployEverythingModules(reset, deploymentArgs, hre) on the values it is
\* given: line 178 lists with hre, and line 120 calls hre.common.getChainId().
RunCallFails(reset, deploymentArgs, hre) == ~IsHre(hre)

\* The surfaces: the ignition deploy-everything task and the functions of
\* hre.ignition.everything.
Surfaces == {"task", "hre"}

\* add(hre, module, external, ...) of the task and the wrapper
\* (file, external) => addDeployEverythingModule(hre, file, external).
SurfaceAdd(via, module, external) ==
    /\ Quiet
    /\ LET r == addDeployEverythingModuleCall(DynHre, DynStr(module), DynBool(external),
                                              manifest, loadable)
       IN  /\ manifest' = r.manifest
           /\ last' = [NoCall EXCEPT !.op = "add", !.surface = via, !.file = module,
                                     !.external = external, !.result = r.result,
                                     !.before = manifest, !.files = loadable]
    /\ run' = IdleRun
    /\ calls' = <<>>
    /\ UNCHANGED <<loadable, fnIn, fnOut, journal, procs>>

\* remove(hre, module, external, ...) of the task and the wrapper
\* (file, external) => removeDeployEverythingModule(hre, file, external).
SurfaceRemove(via, module, external) ==
    /\ Quiet
    /\ LET r == removeDeployEverythingModuleCall(DynHre, DynStr(module), DynBool(external),
                                                 manifest)
       IN  /\ manifest' = r.manifest
           /\ last' = [NoCall EXCEPT !.op = "remove", !.surface = via, !.file = module,
                                     !.external = external, !.result = r.result,
                                     !.before = manifest, !.files = loadable]
    /\ run' = IdleRun
    /\ calls' = <<>>
    /\ UNCHANGED <<loadable, fnIn, fnOut, journal, procs>>

\* check(hre, module, external, ...) of the task and the wrapper
\* (file, external) => isModuleInDeployEverything(hre, file, external).
SurfaceCheck(via, module, external) ==
    /\ Quiet
    /\ LET r == isModuleInDeployEverythingCall(DynHre, DynStr(module), DynBool(external),
                                               manifest)
       IN  last' = [NoCall EXCEPT !.op = "contains", !.surface = via, !.file = module,
                                  !.external = external, !.result = r.result,
                                  !.found = r.found,
                                  !.before = manifest, !.files = loadable]
    /\ run' = IdleRun
    /\ calls' = <<>>
    /\ UNCHANGED <<manifest, loadable, fnIn, fnOut, journal, procs>>

\* list(hre) of the task and the wrapper () => listDeployEverythingModules(hre).
SurfaceList(via) ==
    /\ Quiet
    /\ LET l == listDeployEverythingModules(manifest, ActiveChainId, loadable)
       IN  last' = [NoCall EXCEPT !.op = "list", !.surface = via, !.before = manifest,
                                  !.result = IF l.ok THEN "ok" ELSE "typeError",
                                  !.listed = l.entries, !.files = loadable]
    /\ run' = IdleRun
    /\ calls' = <<>>
    /\ UNCHANGED <<manifest, loadable, fnIn, fnOut, journal, procs>>

\* run(hre, parametersFile, strategyName, deploymentId, defaultSender, reset,
\* verify) of the task and the wrapper (reset, args) =>
\* runDeployEverythingModules(hre, reset, args).
SurfaceRun(via, reset, deploymentId) ==
    /\ Quiet
    /\ IF RunCallFails(DynHre, DynBool(reset), DynArgs(deploymentId))
       THEN /\ run' = [IdleRun EXCEPT !.pc = "failed", !.reset = reset,
                                      !.deploymentId = deploymentId]
            /\ last' = [NoCall EXCEPT !.op = "run", !.surface = via,
                                      !.before = manifest, !.result = "typeError",
                                      !.files = loadable]
            /\ calls' = <<>>
            /\ UNCHANGED <<manifest, loadable, fnIn, fnOut, journal, procs>>
       ELSE RunStart(Truthy(DynHre), deploymentId)

\* The module files of the project that the calls through the surfaces name.
SurfaceFiles ==
    { <<"/", "p", "/", "m", ".", "j">>, <<"/", "p", "/", "n", ".", "j">> }

SurfaceCalls == { <<PathM, FALSE>>, <<PathN, FALSE>>, <<PathM, TRUE>> }

InitSurface ==
    /\ manifest \in {[kind |-> k, contents |-> <<>>] :
                        k \in {"missing", "unparseable", "nolist", "list"}}
    /\ loadable \in SUBSET SurfaceFiles
    /\ last = NoCall
    /\ run = IdleRun
    /\ calls = <<>>
    /\ fnIn = NoIn
    /\ fnOut = NoOut
    /\ journal = NoJournal
    /\ procs = NoProcs

NextSurface ==
    \/ \E f \in SurfaceFiles : Toggle(f)
    \/ \E c \in SurfaceCalls : Add(c[1], c[2])
    \/ \E c \in SurfaceCalls : Remove(c[1], c[2])
    \/ \E reset \in BOOLEAN, deploymentId \in DeploymentIds :
           RunStart(reset, deploymentId)
    \/ RunResetCall
    \/ \E ok \in BOOLEAN : RunResetReturn(ok)
    \/ RunLoop
    \/ \E ok \in BOOLEAN : RunDeployReturn(ok)
    \/ \E via \in Surfaces, c \in SurfaceCalls : SurfaceAdd(via, c[1], c[2])
    \/ \E via \in Surfaces, c \in SurfaceCalls : SurfaceRemove(via, c[1], c[2])
    \/ \E via \in Surfaces, c \in SurfaceCalls : SurfaceCheck(via, c[1], c[2])
    \/ \E via \in Surfaces : SurfaceList(via)
    \/ \E via \in Surfaces, reset \in BOOLEAN, deploymentId \in DeploymentIds :
           SurfaceRun(via, reset, deploymentId)

SpecSurface == InitSurface /\ [][NextSurface]_vars

\* ------------------------------------ several processes on one manifest

\* The manifest file between the open that truncates it and the end of the
\* write: empty or partial, so JSON.parse throws on it.
Truncated == [kind |-> "unparseable", contents |-> <<>>]

\* The (file, external) arguments of the concurrent calls.
ProcCalls == { <<PathM, FALSE>>, <<PathN, FALSE>> }

ProcFree(p) == procs.st[p].pc \in {"idle", "done", "crashed"}

\* Lines 49-89 of addDeployEverythingModule in process p: validation, import,
\* load of the manifest, duplicate check, and the document to save.
ProcAdd(p, file, external) ==
    /\ ProcFree(p)
    /\ LET v        == AddValidate(file, external, loadable)
           settings == DefaultContents(loadDeployEverythingSettings(manifest))
           call     == [NoProc EXCEPT !.op = "add", !.file = file,
                                      !.external = external, !.found = manifest]
       IN  procs' = [procs EXCEPT !.st[p] =
               IF v.error # "none"
               THEN [call EXCEPT !.pc = "done", !.result = v.error]
               ELSE IF AddIsDuplicate(settings.contents, v.module, external)
                    THEN [call EXCEPT !.pc = "done", !.module = v.module,
                                      !.loaded = settings.contents,
                                      !.result = "already"]
                    ELSE [call EXCEPT
                             !.pc = "loaded", !.module = v.module,
                             !.loaded = settings.contents,
                             !.doc = saveDeployEverythingSettings(
                                 [settings EXCEPT !.contents =
                                     AddAppend(settings.contents, v.module, external)]),
                             !.result = "saving"]]
    /\ UNCHANGED <<manifest, loadable, last, run, calls, fnIn, fnOut, journal>>

\* Lines 100-110 of removeDeployEverythingModule in process p: load of the
\* manifest, lookup, and the document to save.
ProcRemove(p, file, external) ==
    /\ ProcFree(p)
    /\ LET module   == LookupModule(file, external)
           settings == DefaultContents(loadDeployEverythingSettings(manifest))
           i        == FindEntry(settings.contents, module, external)
           call     == [NoProc EXCEPT !.op = "remove", !.file = file,
                                      !.external = external, !.found = manifest,
                                      !.module = module, !.loaded = settings.contents]
       IN  procs' = [procs EXCEPT !.st[p] =
               IF i = 0
               THEN [call EXCEPT !.pc = "done", !.result = "notAdded"]
               ELSE [call EXCEPT
                        !.pc = "loaded",
                        !.doc = saveDeployEverythingSettings(
                            [settings EXCEPT !.contents =
                                RemoveFilter(settings.contents, i)]),
                        !.result = "saving"]]
    /\ UNCHANGED <<manifest, loadable, last, run, calls, fnIn, fnOut, journal>>

\* fs.writeFileSync, first part: the file is opened for writing, which
\* truncates it.
ProcSaveOpen(p) ==
    /\ procs.st[p].pc = "loaded"
    /\ manifest' = Truncated
    /\ procs' = [procs EXCEPT !.st[p].pc = "writing", !.writer = p]
    /\ UNCHANGED <<loadable, last, run, calls, fnIn, fnOut, journal>>

\* fs.writeFileSync, second part: the document is written and the call
\* returns.
ProcSaveWrite(p) ==
    /\ procs.st[p].pc = "writing"
    /\ manifest' = procs.st[p].doc
    /\ procs' = [procs EXCEPT !.st[p].pc = "done", !.st[p].result = "ok",
                              !.writer = p]
    /\ UNCHANGED <<loadable, last, run, calls, fnIn, fnOut, journal>>

\* The process dies before or inside the save.
ProcCrash(p) ==
    /\ procs.st[p].pc \in {"loaded", "writing"}
    /\ procs' = [procs EXCEPT
                    !.st[p].pc = "crashed",
                    !.st[p].result = IF procs.st[p].pc = "writing"
                                     THEN "crashedInSave" ELSE "crashedBeforeSave"]
    /\ UNCHANGED <<manifest, loadable, last, run, calls, fnIn, fnOut, journal>>

InitProcs ==
    /\ manifest \in JournalManifests \cup {[kind |-> "missing", contents |-> <<>>]}
    /\ loadable = JournalFiles
    /\ last = NoCall
    /\ run = IdleRun
    /\ calls = <<>>
    /\ fnIn = NoIn
    /\ fnOut = NoOut
    /\ journal = NoJournal
    /\ procs = NoProcs

NextProcs ==
    \/ \E p \in Procs, c \in ProcCalls : ProcAdd(p, c[1], c[2])
    \/ \E p \in Procs, c \in ProcCalls : ProcRemove(p, c[1], c[2])
    \/ \E p \in Procs : ProcSaveOpen(p)
    \/ \E p \in Procs : ProcSaveWrite(p)
    \/ \E p \in Procs : ProcCrash(p)

SpecProcs == InitProcs /\ [][NextProcs]_vars

\* --------------------------------- the pure functions on their own inputs

\* The longest file name given to addChainId and importModule.
MaxLen == 4

Alphabet == {"m", ".", "/"}

\* The names of files: non-empty, not ending in the separator.
FileNames ==
    {f \in UNION {[1..n -> Alphabet] : n \in 1..MaxLen} : f[Len(f)] # "/"}

\* A descriptor, a chain id, and which of the two files importModule may
\* require for them exist.
FnInputs ==
    UNION { { [filename |-> f, external |-> x, chainId |-> c, ld |-> ld] :
                ld \in SUBSET {VariantName(f, x, c), BaseName(f, x)} } :
            f \in FileNames, x \in BOOLEAN, c \in ChainIds }

\* The manifests add may find for an input: none, or one that already holds
\* the identity key of the input (written by an add or by hand).
FnManifests(in) ==
    { [kind |-> "missing", contents |-> <<>>],
      [kind |-> "list",
       contents |-> <<Descriptor(LookupModule(in.filename, in.external), in.external)>>] }

InitFn ==
    /\ fnIn \in FnInputs
    /\ manifest \in FnManifests(fnIn)
    /\ loadable = {}
    /\ last = NoCall
    /\ run = IdleRun
    /\ calls = <<>>
    /\ fnOut = NoOut
    /\ journal = NoJournal
    /\ procs = NoProcs

ApplyAddChainId ==
    /\ fnOut.op = "none"
    /\ fnOut' = [NoOut EXCEPT !.op = "addChainId",
                              !.value = addChainId(fnIn.filename, fnIn.chainId)]
    /\ UNCHANGED <<manifest, loadable, last, run, calls, fnIn, journal, procs>>

ApplyImportModule ==
    /\ fnOut.op = "none"
    /\ fnOut' = [NoOut EXCEPT !.op = "importModule",
                              !.resolved = importModule(fnIn.filename, fnIn.external,
                                                        fnIn.chainId, fnIn.ld)]
    /\ UNCHANGED <<manifest, loadable, last, run, calls, fnIn, journal, procs>>

\* addDeployEverythingModule on the drawn path, flag, files and manifest.
ApplyAdd ==
    /\ fnOut.op = "none"
    /\ LET r == addDeployEverythingModule(fnIn.filename, fnIn.external, manifest, fnIn.ld)
       IN  /\ fnOut' = [NoOut EXCEPT !.op = "add", !.result = r.result]
           /\ manifest' = r.manifest
    /\ UNCHANGED <<loadable, last, run, calls, fnIn, journal, procs>>

NextFn ==
    \/ ApplyAddChainId
    \/ ApplyImportModule
    \/ ApplyAdd

SpecFn == InitFn /\ [][NextFn]_vars

\* ---------------------------------------------------- deployed contracts

\* The contract (future) ids a deployment may hold.
ContractIds == {<<"A">>, <<"B">>}

\* What ignition/deployments/<id>/artifacts/<contractId>.json may be: absent
\* or unparseable, a document without abi, with an empty abi, with an abi.
ArtifactKinds == {"missing", "noAbi", "emptyAbi", "abi"}

\* deploymentId ||= `chain-${chainId}`
EffectiveDeploymentId(deploymentId, chainId) ==
    IF deploymentId = <<>>
    THEN <<"c", "h", "a", "i", "n", "-">> \o chainId
    ELSE deploymentId

\* The address deployed_addresses.json holds for a contract id.
AddressOf(contractId) == <<"0", "x">> \o contractId

\* Lines 272-278: the parsed deployed_addresses.json, {} when the file cannot
\* be read; the document is given by the set of ids it has an address for.
LoadAddresses(file) ==
    IF file.exists THEN file.ids ELSE {}

\* Lines 291-297: artifact.abi, "none" when the artifact cannot be read or
\* has no abi.
LoadAbi(kind) ==
    IF kind \in {"missing", "noAbi"} THEN "none"
    ELSE IF kind = "emptyAbi" THEN "empty" ELSE "abi"

\* Lines 299-307: the argument of new Error is a template literal followed by
\* further template literals without an operator, a tagged template whose
\* tag is a string; evaluating it throws a TypeError before the Error is made.
CorruptedThrow == "typeError"

NoHandle == [abi |-> "none", address |-> <<>>]

\* getDeployedContract(deploymentId, contractId, hre) on the files of the
\* effective deployment.
getDeployedContract(contractId, file, artifacts) ==
    LET addresses == LoadAddresses(file)
        abi       == LoadAbi(artifacts[contractId])
    IN  IF contractId \notin addresses
        THEN [result |-> "notDeployed", handle |-> NoHandle]
        ELSE IF abi \in {"none", "empty"}
             THEN [result |-> CorruptedThrow, handle |-> NoHandle]
             ELSE [result |-> "handle",
                   handle |-> [abi |-> abi, address |-> AddressOf(contractId)]]

\* listDeployedContracts(deploymentId, hre): the keys of the address map; the
\* read error is not caught.
listDeployedContracts(file) ==
    IF file.exists
    THEN [result |-> "ok", ids |-> file.ids]
    ELSE [result |-> "readError", ids |-> {}]

\* A call: the deployment id given (or none), the contract id, and the files
\* of the effective deployment.
ContractInputs ==
    { [deploymentId |-> d, contractId |-> c, file |-> f, artifacts |-> a] :
        d \in DeploymentIds, c \in ContractIds,
        f \in {[exists |-> FALSE, ids |-> {}]}
                \cup {[exists |-> TRUE, ids |-> ids] : ids \in SUBSET ContractIds},
        a \in [ContractIds -> ArtifactKinds] }

NoContractOut ==
    [op |-> "none", deployment |-> <<>>, result |-> "", handle |-> NoHandle, ids |-> {}]

InitContract ==
    /\ manifest = [kind |-> "missing", contents |-> <<>>]
    /\ loadable = {}
    /\ last = NoCall
    /\ run = IdleRun
    /\ calls = <<>>
    /\ fnIn \in ContractInputs
    /\ fnOut = NoContractOut
    /\ journal = NoJournal
    /\ procs = NoProcs

ApplyGetDeployedContract ==
    /\ fnOut.op = "none"
    /\ LET r == getDeployedContract(fnIn.contractId, fnIn.file, fnIn.artifacts)
       IN  fnOut' = [NoContractOut EXCEPT
                        !.op = "getDeployedContract",
                        !.deployment = EffectiveDeploymentId(fnIn.deploymentId, ActiveChainId),
                        !.result = r.result, !.handle = r.handle]
    /\ UNCHANGED <<manifest, loadable, last, run, calls, fnIn, journal, procs>>

ApplyListDeployedContracts ==
    /\ fnOut.op = "none"
    /\ LET r == listDeployedContracts(fnIn.file)
       IN  fnOut' = [NoContractOut EXCEPT
                        !.op = "listDeployedContracts",
                        !.deployment = EffectiveDeploymentId(fnIn.deploymentId, ActiveChainId),
                        !.result = r.result, !.ids = r.ids]
    /\ UNCHANGED <<manifest, loadable, last, run, calls, fnIn, journal, procs>>

NextContract ==
    \/ ApplyGetDeployedContract
    \/ ApplyListDeployedContracts

SpecContract == InitContract /\ [][NextContract]_vars

\* ----------------------------------------------------------------- claims

\* The registry a load of manifest m yields (contents defaulted to []).
Registry(m) == DefaultContents(loadDeployEverythingSettings(m)).contents

NoDuplicateKeys(contents) ==
    \A i, j \in 1..Len(contents) :
        (contents[i].filename = contents[j].filename
         /\ contents[i].external = contents[j].external) => i = j

\* The identity key the calls compute for their arguments.
KeyOf(file, external) == Descriptor(LookupModule(file, external), external)

HasKey(contents, file, external) ==
    \E i \in 1..Len(contents) : contents[i] = KeyOf(file, external)

\* contents without its element at index i.
Without(contents, i) ==
    [k \in 1..(Len(contents) - 1) |-> IF k < i THEN contents[k] ELSE contents[k + 1]]

\* C1: after any sequence of add and remove calls starting from an absent or
\* empty manifest, the persisted registry never holds two descriptors with
\* the same (filename, external) pair.
C1_UniqueKeys == NoDuplicateKeys(manifest.contents)

\* C1, second half: an external and an in-project descriptor share a filename.
C1_SameNameBothFlags ==
    /\ NoDuplicateKeys(manifest.contents)
    /\ \E i, j \in 1..Len(manifest.contents) :
          /\ manifest.contents[i].filename = manifest.contents[j].filename
          /\ manifest.contents[i].external # manifest.contents[j].external

\* The deploy calls of the current run, in the order they were made.
DeployCalls == SelectSeq(calls, LAMBDA c : c.ev = "deploy")

\* C2: a successful add puts the new descriptor at the end, a successful
\* remove deletes exactly the matching descriptor, every other descriptor
\* keeps its content and place; list and run process the registry in order.
C2_OrderStable ==
    /\ (last.op = "add" /\ last.result = "ok") =>
          Registry(manifest) = Append(Registry(last.before), KeyOf(last.file, last.external))
    /\ (last.op = "remove" /\ last.result = "ok") =>
          \E i \in 1..Len(Registry(last.before)) :
              /\ Registry(last.before)[i] = KeyOf(last.file, last.external)
              /\ Registry(manifest) = Without(Registry(last.before), i)
    /\ (last.op = "list" /\ last.result = "ok") =>
          /\ Len(last.listed) = Len(Registry(last.before))
          /\ \A k \in 1..Len(last.listed) :
                Descriptor(last.listed[k].filename, last.listed[k].external)
                    = Registry(last.before)[k]
    /\ last.op = "run" =>
          /\ Len(DeployCalls) <= Len(Registry(last.before))
          /\ \A k \in 1..Len(DeployCalls) :
                LET d == Registry(last.before)[k]
                IN  DeployCalls[k].arg \in
                        {VariantName(d.filename, d.external, ActiveChainId),
                         BaseName(d.filename, d.external)}

\* C2 witness: the middle one of three descriptors was removed.
C2_RemovedMiddle ==
    /\ last.op = "remove" /\ last.result = "ok"
    /\ Len(Registry(last.before)) = 3
    /\ Registry(last.before)[2] = KeyOf(last.file, last.external)
    /\ Registry(manifest) = <<Registry(last.before)[1], Registry(last.before)[3]>>

\* C3: a successful add followed by remove of the same (path, external)
\* leaves the registry with the descriptors and the order it had before.
C3_AddRemoveRestores ==
    (last.op = "remove" /\ last.prior # NoManifest) =>
        /\ last.result = "ok"
        /\ Registry(manifest) = Registry(last.prior)

\* C3 witness: the pair was applied to a registry of two descriptors.
C3_RestoredTwo ==
    /\ last.op = "remove" /\ last.prior # NoManifest
    /\ Len(Registry(last.prior)) = 2
    /\ Registry(manifest) = Registry(last.prior)

ImportErrors == {"requireExternal", "requireProject"}

\* C4 as stated: add of a key that is in the registry fails with 'already
\* added', remove of a key that is not fails with 'not added', the second of
\* two consecutive adds of a key fails.
C4_AlwaysAlreadyAdded ==
    /\ (last.op = "add" /\ HasKey(Registry(last.before), last.file, last.external)) =>
          last.result = "already"
    /\ (last.op = "remove" /\ ~HasKey(Registry(last.before), last.file, last.external)) =>
          last.result = "notAdded"
    /\ (last.op = "add" /\ last.prior # NoManifest) => last.result # "ok"

\* C4 amended: add of a key that is in the registry always fails, with
\* 'already added' when the module still imports and with the cannot-import
\* error when it does not; remove of a key that is not in the registry fails
\* with 'not added'; the add that follows a successful add of the same key
\* fails.
C4_RegisteredAddFails ==
    /\ \A c \in InputCalls :
          LET r == addDeployEverythingModule(c[1], c[2], manifest, loadable)
              v == AddValidate(c[1], c[2], loadable)
          IN  HasKey(Registry(manifest), c[1], c[2]) =>
                  /\ v.error \in ImportErrors \cup {"none"}
                  /\ r.result = IF v.error = "none" THEN "already" ELSE v.error
    /\ (last.op = "add" /\ HasKey(Registry(last.before), last.file, last.external)) =>
          last.result \in ImportErrors \cup {"already"}
    /\ (last.op = "remove" /\ ~HasKey(Registry(last.before), last.file, last.external)) =>
          last.result = "notAdded"
    /\ (last.op = "add" /\ last.prior # NoManifest) =>
          last.result \in ImportErrors \cup {"already"}

\* C4 witness: the same add twice in a row, the second one rejected as
\* already added.
C4_SecondAddRejected ==
    /\ last.op = "add" /\ last.prior # NoManifest
    /\ last.result = "already"

\* C5: an add or remove call that ends in an error saves nothing: the
\* manifest is the one the call found.
C5_ErrorsSaveNothing ==
    (last.op \in {"add", "remove"} /\ last.result # "ok") => manifest = last.before

\* C5 witness: a duplicate add was rejected on a registry of two.
C5_DuplicateRejected ==
    /\ last.op = "add" /\ last.result = "already"
    /\ Len(manifest.contents) = 2
    /\ manifest = last.before

\* C6: a missing or unparseable manifest loads as an empty registry without
\* an error: list returns no entries, contains is false for every key, and
\* an add that passes validation succeeds and saves just the new descriptor.
C6_MissingManifestIsEmpty ==
    /\ manifest.kind \in {"missing", "unparseable"} =>
          /\ listDeployEverythingModules(manifest, ActiveChainId, loadable)
                = [ok |-> TRUE, entries |-> <<>>]
          /\ \A c \in InputCalls :
                /\ ~isModuleInDeployEverything(c[1], c[2], manifest)
                /\ AddValidate(c[1], c[2], loadable).error = "none" =>
                      addDeployEverythingModule(c[1], c[2], manifest, loadable)
                          = [result   |-> "ok",
                             manifest |-> [kind |-> "list",
                                           contents |-> <<KeyOf(c[1], c[2])>>]]
    /\ last.before.kind \in {"missing", "unparseable"} =>
          /\ last.op = "list" => (last.result = "ok" /\ last.listed = <<>>)
          /\ last.op = "contains" => ~last.found
          /\ last.op = "add" => last.result \notin {"already", "typeError"}
          /\ (last.op = "add" /\ last.result = "ok") =>
                manifest = [kind |-> "list",
                            contents |-> <<KeyOf(last.file, last.external)>>]

\* C6 witness: an add succeeded on an unparseable manifest.
C6_AddedOnUnparseable ==
    /\ last.op = "add" /\ last.result = "ok"
    /\ last.before.kind = "unparseable"
    /\ manifest.contents = <<KeyOf(last.file, last.external)>>

ResetEvents == {"reset", "resetDone", "resetFail"}

\* C7 as stated: with the manifest missing, run makes no deploy call and no
\* journal-reset call, whatever the reset flag and the deploy arguments.
C7_NoEngineCall ==
    (last.op = "run" /\ last.before.kind = "missing") => calls = <<>>

\* C7 amended: with the manifest missing, run makes no deploy call, whatever
\* the reset flag and the deploy arguments; it requests the journal reset
\* exactly when the reset flag is set.
C7_NoDeployResetIffFlag ==
    (last.op = "run" /\ last.before.kind = "missing") =>
        /\ \A i \in 1..Len(calls) : calls[i].ev \in ResetEvents
        /\ ~run.reset => calls = <<>>
        /\ (run.reset /\ run.pc # "listed") =>
              /\ Len(calls) >= 1
              /\ calls[1] = Event("reset", run.deploymentId)
              /\ \A i \in 2..Len(calls) : calls[i].ev # "reset"
        /\ last.result \in {"running", "ok", "engineError"}

\* C7 witness: a run with the reset flag ended on a missing manifest.
C7_ResetOnMissing ==
    /\ last.op = "run" /\ last.before.kind = "missing"
    /\ run.reset /\ run.pc = "done"
    /\ calls = <<Event("reset", run.deploymentId), Event("resetDone", run.deploymentId)>>

\* C10: in every run the journal reset is requested at most once and only
\* when the reset flag is set; it has returned before the first deploy call,
\* and no deploy call precedes it.
C10_ResetBeforeDeploys ==
    last.op = "run" =>
        /\ Cardinality({i \in 1..Len(calls) : calls[i].ev = "reset"}) <= 1
        /\ (\E i \in 1..Len(calls) : calls[i].ev = "reset") => run.reset
        /\ \A i \in 1..Len(calls) :
              calls[i].ev = "deploy" =>
                  /\ \A j \in 1..Len(calls) : calls[j].ev \in ResetEvents => j < i
                  /\ run.reset => \E j \in 1..(i - 1) : calls[j].ev = "resetDone"

\* C10 witness: a run with the reset flag made two deploy calls after the
\* reset returned.
C10_ResetThenTwoDeploys ==
    /\ last.op = "run" /\ run.reset
    /\ Len(calls) >= 5
    /\ calls[1].ev = "reset" /\ calls[2].ev = "resetDone"
    /\ calls[3].ev = "deploy" /\ calls[5].ev = "deploy"

\* C8: importModule returns the loaded chain-qualified variant whenever it
\* loads, the loaded base module when the variant does not load, and when
\* neither loads one error naming the descriptor's path and saying whether
\* it was treated as external or in-project.
C8_PrefersVariant ==
    fnOut.op = "importModule" =>
        LET v == VariantName(fnIn.filename, fnIn.external, fnIn.chainId)
            b == BaseName(fnIn.filename, fnIn.external)
            r == fnOut.resolved
        IN  /\ v \in fnIn.ld => (r.ok /\ r.module = v)
            /\ (v \notin fnIn.ld /\ b \in fnIn.ld) => (r.ok /\ r.module = b)
            /\ (v \notin fnIn.ld /\ b \notin fnIn.ld) =>
                  /\ ~r.ok
                  /\ r.path = fnIn.filename
                  /\ r.treated = IF fnIn.external THEN "external" ELSE "in-project"

\* C8 witness: variant and base of an external descriptor both load and the
\* variant is returned.
C8_VariantChosenOverBase ==
    /\ fnOut.op = "importModule" /\ fnIn.external
    /\ VariantName(fnIn.filename, fnIn.external, fnIn.chainId) \in fnIn.ld
    /\ BaseName(fnIn.filename, fnIn.external) \in fnIn.ld
    /\ fnOut.resolved.module = VariantName(fnIn.filename, fnIn.external, fnIn.chainId)
    /\ fnOut.resolved.module # BaseName(fnIn.filename, fnIn.external)

\* The path with -chainId put right before the extension of its final
\* segment (at the end of the path when that segment has no extension).
InsertBeforeFinalExtension(filename, chainId) ==
    LET segs    == Split(filename, "/")
        lastSeg == segs[Len(segs)]
        dirs    == SubSeq(filename, 1, Len(filename) - Len(lastSeg))
        dots    == {i \in 1..Len(lastSeg) : lastSeg[i] = "."}
        cut     == IF dots = {} THEN Len(lastSeg) + 1
                   ELSE CHOOSE i \in dots : \A j \in dots : j <= i
    IN  dirs \o SubSeq(lastSeg, 1, cut - 1) \o <<"-">> \o chainId
             \o SubSeq(lastSeg, cut, Len(lastSeg))

\* C9: the chain-qualified variant name is the path with -chainId inserted
\* right before the extension of the final path segment, every earlier
\* segment unchanged, also when directories hold dots and when the final
\* segment has no extension.
C9_InsertedBeforeFinalExtension ==
    fnOut.op = "addChainId" =>
        fnOut.value = InsertBeforeFinalExtension(fnIn.filename, fnIn.chainId)

\* The number of deploy calls that have not returned yet.
InFlight ==
    Cardinality({i \in 1..Len(calls) : calls[i].ev = "deploy"})
        - Cardinality({i \in 1..Len(calls) : calls[i].ev \in {"deployDone", "deployFail"}})

\* C11: run makes its deploy calls in registry order, one per registered
\* descriptor, and starts none before the previous one has returned: two
\* deploy calls of a run are never in progress together.
C11_OneDeployAtATime ==
    last.op = "run" =>
        /\ InFlight \in {0, 1}
        /\ \A i \in 1..Len(calls) :
              (calls[i].ev = "deploy" /\ i < Len(calls)) => calls[i + 1].ev # "deploy"
        /\ \A k \in 1..Len(DeployCalls) :
              /\ k <= Len(run.modules)
              /\ DeployCalls[k].arg \in
                    {VariantName(run.modules[k].filename, run.modules[k].external,
                                 ActiveChainId),
                     BaseName(run.modules[k].filename, run.modules[k].external)}
        /\ [k \in 1..Len(run.modules) |->
               Descriptor(run.modules[k].filename, run.modules[k].external)]
              = Registry(last.before)
        /\ run.pc = "done" =>
              /\ Len(DeployCalls) = Len(Registry(last.before))
              /\ InFlight = 0

\* C11 witness: a run over two descriptors ended, the second deploy call
\* made after the first had returned.
C11_TwoDeploysInTurn ==
    /\ last.op = "run" /\ run.pc = "done" /\ ~run.reset
    /\ Len(Registry(last.before)) = 2
    /\ [i \in 1..Len(calls) |-> calls[i].ev]
          = <<"deploy", "deployDone", "deploy", "deployDone">>

\* C12: when the engine's deploy call fails for the module at position k,
\* run fails with the engine's error, makes no deploy call after it, and
\* makes no call that would undo the modules deployed before k.
C12_EngineFailureAborts ==
    last.op = "run" =>
        \A i \in 1..Len(calls) :
            calls[i].ev = "deployFail" =>
                /\ i = Len(calls)
                /\ run.pc = "failed"
                /\ last.result = "engineError"
                /\ Cardinality({j \in 1..i : calls[j].ev = "deployDone"}) = run.idx
                /\ \A j \in 1..i :
                      calls[j].ev = "deployDone" =>
                          \A h \in (j + 1)..Len(calls) : calls[h].ev \notin ResetEvents

\* C12 witness: the second deploy call of a run failed after the first one
\* had succeeded.
C12_FailedAtSecond ==
    /\ last.op = "run" /\ run.pc = "failed" /\ last.result = "engineError"
    /\ [i \in 1..Len(calls) |-> calls[i].ev]
          = <<"deploy", "deployDone", "deploy", "deployFail">>
    /\ Len(run.modules) = 3

\* C14: on every manifest that holds a registry, list returns one entry per
\* registered descriptor, in registry order, whatever modules load; a
\* descriptor whose module cannot be resolved is listed with no result ids
\* and neither fails the listing nor drops an entry.
C14_ListNeverAborts ==
    /\ manifest.kind # "nolist" =>
          LET l   == listDeployEverythingModules(manifest, ActiveChainId, loadable)
              reg == Registry(manifest)
          IN  /\ l.ok
              /\ Len(l.entries) = Len(reg)
              /\ \A k \in 1..Len(reg) :
                    /\ Descriptor(l.entries[k].filename, l.entries[k].external) = reg[k]
                    /\ ~importModule(reg[k].filename, reg[k].external,
                                     ActiveChainId, loadable).ok
                          => l.entries[k].moduleResults = <<>>
    /\ (last.op = "list" /\ last.before.kind # "nolist") =>
          /\ last.result = "ok"
          /\ Len(last.listed) = Len(Registry(last.before))
          /\ \A k \in 1..Len(last.listed) :
                Descriptor(last.listed[k].filename, last.listed[k].external)
                    = Registry(last.before)[k]

\* C14 witness: a list of two descriptors, the first one unresolvable and
\* listed without results, the second one listed with its result id.
C14_UnresolvableListedEmpty ==
    /\ last.op = "list" /\ last.result = "ok" /\ manifest = last.before
    /\ Len(last.listed) = 2
    /\ ~importModule(last.listed[1].filename, last.listed[1].external,
                     ActiveChainId, loadable).ok
    /\ last.listed[1].moduleResults = <<>>
    /\ last.listed[2].moduleResults # <<>>

\* C15: list and contains never write the manifest, whatever it holds and
\* however the call ends.
C15_ReadsNeverWrite ==
    last.op \in {"list", "contains"} => manifest = last.before

\* C15 witness: a list on an unparseable manifest left it as it was.
C15_ListLeftUnparseable ==
    /\ last.op = "list"
    /\ last.before.kind = "unparseable"
    /\ manifest = last.before

\* The path of a stored in-project descriptor is relative to the project
\* root: the normalizer reports it as project-owned and returns it as it is.
RootRelative(filename) ==
    /\ ~StartsWith(filename, <<"/">>)
    /\ normalizeByProjectPrefix(filename) = [file |-> filename, stripped |-> TRUE]

\* C17: after any sequence of add and remove calls starting from an empty
\* registry, every stored in-project descriptor holds a path relative to the
\* project root, and every stored external descriptor holds a path an add was
\* given, as given, not starting with "/".
C17_StoredPathShape ==
    /\ \A i \in 1..Len(manifest.contents) :
          LET e == manifest.contents[i]
          IN  IF e.external
              THEN /\ ~StartsWith(e.filename, <<"/">>)
                   /\ <<e.filename, TRUE>> \in InputCalls
              ELSE /\ RootRelative(e.filename)
                   /\ \E c \in InputCalls :
                         ~c[2] /\ normalizeByProjectPrefix(c[1]).file = e.filename
    /\ (last.op = "add" /\ last.result = "ok") =>
          LET e == manifest.contents[Len(manifest.contents)]
          IN  /\ e.external = last.external
              /\ e.filename = IF last.external THEN last.file
                              ELSE normalizeByProjectPrefix(last.file).file

\* C17 witness: an add given the absolute path of a project module stored the
\* root-relative path, next to an external descriptor stored as given.
C17_AbsoluteStoredRelative ==
    /\ last.op = "add" /\ last.result = "ok"
    /\ last.file = PathAbsM /\ ~last.external
    /\ manifest.contents = <<Descriptor(PathM, TRUE), Descriptor(PathM, FALSE)>>

\* The file the import attempt of add requires for its arguments.
AddRequires(file, external) ==
    IF external THEN file ELSE pathResolve(Root, file)

\* C16: add with external = true and a path starting with "/" fails with the
\* forbidden-absolute-path error, add with external = false and a path that
\* normalizes outside the project root fails with the not-in-project error,
\* whatever files can be imported and whatever the registry holds; no other
\* add ends in either error, and the manifest is left as found.
C16_PathChecksFirst ==
    fnOut.op = "add" =>
        /\ fnOut.result = "absolute"
              <=> (fnIn.external /\ StartsWith(fnIn.filename, <<"/">>))
        /\ fnOut.result = "notInProject"
              <=> (~fnIn.external /\ ~normalizeByProjectPrefix(fnIn.filename).stripped)
        /\ fnOut.result \in {"absolute", "notInProject"} => manifest \in FnManifests(fnIn)

\* C16 witness: an absolute external path whose file cannot be imported and
\* whose key is already in the registry is refused as an absolute path.
C16_AbsoluteWinsOverBoth ==
    /\ fnOut.op = "add" /\ fnOut.result = "absolute"
    /\ AddRequires(fnIn.filename, fnIn.external) \notin fnIn.ld
    /\ manifest.kind = "list"
    /\ HasKey(manifest.contents, fnIn.filename, fnIn.external)

\* C18: getDeployedContract fails with the not-deployed error when the
\* address map has no address for the contract id (a missing address map
\* included), fails with the corrupted-contract-data error when the address
\* exists and the artifact has no abi or an empty abi, and requests a handle
\* only when an address and a non-empty abi exist.
C18_NotDeployedThenCorrupted ==
    fnOut.op = "getDeployedContract" =>
        LET deployed == fnIn.file.exists /\ fnIn.contractId \in fnIn.file.ids
            hasAbi   == fnIn.artifacts[fnIn.contractId] = "abi"
        IN  /\ ~deployed => fnOut.result = "notDeployed"
            /\ (deployed /\ ~hasAbi) => fnOut.result = "corrupted"
            /\ fnOut.result = "handle" <=> (deployed /\ hasAbi)

\* C19: through the task and the hre wrappers, add of a loadable in-project
\* module path that is not registered registers it (the manifest gains the
\* descriptor at the end); list shows the registered descriptors, check
\* reports a registered path as added, and remove of a registered path
\* succeeds and takes it out.
C19_SurfaceAddRegisters ==
    (last.surface \in Surfaces /\ ~last.external /\ last.before.kind # "nolist") =>
        LET reg == Registry(last.before)
            key == KeyOf(last.file, FALSE)
            i   == FindEntry(reg, key.filename, FALSE)
        IN  /\ (last.op = "add" /\ i = 0
                /\ Require(pathResolve(Root, last.file), last.files)) =>
                    /\ last.result = "ok"
                    /\ manifest.contents = Append(reg, key)
            /\ last.op = "list" =>
                    /\ last.result = "ok"
                    /\ Len(last.listed) = Len(reg)
                    /\ \A k \in 1..Len(reg) :
                          Descriptor(last.listed[k].filename, last.listed[k].external) = reg[k]
            /\ (last.op = "contains" /\ i # 0) => (last.result = "ok" /\ last.found)
            /\ (last.op = "remove" /\ i # 0) =>
                    /\ last.result = "ok"
                    /\ manifest.contents = Without(reg, i)

\* C20: a run started through the task or the hre wrapper that no module and
\* no engine call fails ends with one deploy call per registered module, in
\* registry order, and has asked for a reset only when the flag was given.
C20_SurfaceRunDeploysAll ==
    (/\ last.surface \in Surfaces /\ last.op = "run"
     /\ run.pc \in {"done", "failed"}
     /\ last.before.kind # "nolist"
     /\ last.result \notin {"importError", "engineError"}) =>
        LET reg == Registry(last.before)
        IN  /\ Len(DeployCalls) = Len(reg)
            /\ \A k \in 1..Len(reg) :
                  DeployCalls[k].arg \in
                      { VariantName(reg[k].filename, reg[k].external, ActiveChainId),
                        BaseName(reg[k].filename, reg[k].external) }
            /\ (\E i \in 1..Len(calls) : calls[i].ev = "reset") => run.reset

IsPrefix(a, b) == Len(a) <= Len(b) /\ SubSeq(b, 1, Len(a)) = a

\* The modules whose deploy call of the current run has returned.
DeployedNow ==
    LET at == {i \in 1..Len(calls) :
                  /\ calls[i].ev = "deploy"
                  /\ i < Len(calls) /\ calls[i + 1].ev = "deployDone"}
    IN  SelectSeq([i \in 1..Len(calls) |-> IF i \in at THEN calls[i].arg ELSE <<>>],
                  LAMBDA a : a # <<>>)

\* C13: on an engine idempotent per module within a deployment, a run
\* without reset keeps every journaled module and its address, executes only
\* the modules the journal did not hold, in registry order, each once; after
\* a run of the same deployment that failed at module k it executes nothing
\* before module k, and after a fully successful one it executes nothing.
C13_RerunResumes ==
    (last.op = "run" /\ ~run.reset) =>
        LET d   == run.deploymentId
            now == journal.entries[d]
            old == journal.atStart
            new == SelectSeq(DeployedNow, LAMBDA a : ~Journaled(old, a))
        IN  /\ IsPrefix(old, now)
            /\ JournalModules(now) = JournalModules(old) \o new
            /\ \A i, j \in 1..Len(now) : now[i].module = now[j].module => i = j
            /\ (journal.prev.pc = "failed" /\ journal.prev.deploymentId = d) =>
                  \A j \in 1..Len(DeployCalls) :
                      j <= journal.prev.idx => Journaled(old, DeployCalls[j].arg)
            /\ (journal.prev.pc = "done" /\ journal.prev.deploymentId = d) => now = old

\* C13 witness: a run without reset ended after a run of the same deployment
\* that failed at the second module: the first module kept its address and
\* only the second one was executed.
C13_ResumedAtSecond ==
    /\ last.op = "run" /\ ~run.reset /\ run.pc = "done"
    /\ journal.prev = [pc |-> "failed", idx |-> 1, deploymentId |-> run.deploymentId]
    /\ Len(journal.atStart) = 1
    /\ Len(DeployCalls) = 2
    /\ Len(journal.entries[run.deploymentId]) = 2
    /\ journal.entries[run.deploymentId][1] = journal.atStart[1]
    /\ journal.entries[run.deploymentId][2].module = DeployCalls[2].arg

\* C22: when the module at registry position k cannot be resolved, the run
\* fails with the resolver's error for that module; the deploy calls made are
\* those of the k - 1 modules before it, each returned, and none is made for
\* module k or for a module after it.
C22_UnresolvableStopsRun ==
    (last.op = "run" /\ last.result = "importError") =>
        LET k == run.idx + 1
        IN  /\ run.pc = "failed"
            /\ k <= Len(run.modules)
            /\ last.path = run.modules[k].filename
            /\ last.treated = IF run.modules[k].external THEN "external" ELSE "in-project"
            /\ Len(DeployCalls) = k - 1
            /\ InFlight = 0
            /\ \A j \in 1..Len(DeployCalls) :
                  DeployCalls[j].arg \in
                      { VariantName(run.modules[j].filename, run.modules[j].external,
                                    ActiveChainId),
                        BaseName(run.modules[j].filename, run.modules[j].external) }

\* C22 witness: the second of two registered modules could not be resolved;
\* the run failed after the one deploy call of the first.
C22_FailedAtSecondModule ==
    /\ last.op = "run" /\ last.result = "importError"
    /\ Len(run.modules) = 2 /\ run.idx = 1
    /\ Len(DeployCalls) = 1
    /\ ~importModule(run.modules[2].filename, run.modules[2].external,
                     ActiveChainId, loadable).ok

\* C23: run resolves the whole registry before it asks anything of the
\* engine: while a module of the run's list, at any position, cannot be
\* resolved, the run has requested no journal reset and made no deploy call.
C23_ResolvesAllBeforeEngine ==
    (/\ last.op = "run" /\ run.pc # "idle"
     /\ \E k \in 1..Len(run.modules) :
           ~importModule(run.modules[k].filename, run.modules[k].external,
                         ActiveChainId, loadable).ok) =>
        calls = <<>>

\* C27: a manifest document that parses but holds no contents list is an
\* empty registry for every operation: add registers its key, remove fails
\* with 'not added', contains is false, list returns no entries and run makes
\* no deploy call, none of them failing for the missing list.
C27_NoListIsEmptyRegistry ==
    last.before.kind = "nolist" =>
        /\ last.result # "typeError"
        /\ last.op = "add" =>
              /\ last.result # "already"
              /\ last.result = "ok" =>
                    manifest.contents = <<KeyOf(last.file, last.external)>>
        /\ last.op = "remove" => last.result = "notAdded"
        /\ last.op = "contains" => (last.result = "ok" /\ ~last.found)
        /\ last.op = "list" => (last.result = "ok" /\ last.listed = <<>>)
        /\ last.op = "run" => DeployCalls = <<>>

\* C24 as stated: for every manifest content and whatever files load,
\* contains(path, external) is true exactly when add of that key would be
\* rejected as already registered and remove of that key would succeed.
C24_ContainsIffAddRejected ==
    \A c \in InputCalls :
        isModuleInDeployEverything(c[1], c[2], manifest)
            <=> /\ addDeployEverythingModule(c[1], c[2], manifest, loadable).result
                       = "already"
                /\ removeDeployEverythingModule(c[1], c[2], manifest).result = "ok"

\* C24 amended: contains is true exactly when remove of that key would
\* succeed, whether or not the module file still imports; add of that key is
\* rejected as already registered exactly when contains is true and the
\* module still imports, and with the cannot-import error when contains is
\* true and it does not. contains neither imports nor writes.
C24_ContainsIffRemovable ==
    /\ \A c \in InputCalls :
          LET found == isModuleInDeployEverything(c[1], c[2], manifest)
              added == addDeployEverythingModule(c[1], c[2], manifest, loadable)
              v     == AddValidate(c[1], c[2], loadable)
          IN  /\ found <=> removeDeployEverythingModule(c[1], c[2], manifest).result = "ok"
              /\ found <=> HasKey(Registry(manifest), c[1], c[2])
              /\ added.result = "already" <=> (found /\ v.error = "none")
              /\ (found /\ v.error # "none") => added.result \in ImportErrors
    /\ last.op = "contains" =>
          /\ last.found <=> HasKey(Registry(last.before), last.file, last.external)
          /\ manifest = last.before

\* C24 witness: contains found a key whose module file no longer imports;
\* remove of the key would succeed and add of it fails on the import.
C24_FoundWhileNotImportable ==
    /\ last.op = "contains" /\ last.found /\ last.surface = "core"
    /\ AddValidate(last.file, last.external, loadable).error \in ImportErrors
    /\ removeDeployEverythingModule(last.file, last.external, manifest).result = "ok"
    /\ addDeployEverythingModule(last.file, last.external, manifest, loadable).result
          \in ImportErrors

\* C21: when a process crashes during save and no other process has touched
\* the file, the manifest is the previous one or the complete new one, never
\* a truncated or partial document that a load treats as an empty registry.
C21_CrashLeavesOldOrNew ==
    \A p \in Procs :
        (/\ procs.st[p].pc = "crashed"
         /\ procs.writer \in {0, p}
         /\ procs.st[p].found.kind = "list"
         /\ procs.st[p].found.contents # <<>>) =>
            manifest \in {procs.st[p].found, procs.st[p].doc}

\* C25: add and remove are load-modify-save cycles without locking: the
\* document a process saves is the registry it loaded with its own change
\* applied, whatever was written in between, and the file holds exactly
\* that document once the save has returned.
C25_SavesWhatItLoaded ==
    \A p \in Procs :
        LET st == procs.st[p]
        IN  /\ (st.op = "add" /\ st.result \in {"saving", "ok"}) =>
                  st.doc = [kind |-> "list",
                            contents |-> Append(st.loaded,
                                                Descriptor(st.module, st.external))]
            /\ (st.op = "remove" /\ st.result \in {"saving", "ok"}) =>
                  /\ st.doc.kind = "list"
                  /\ Len(st.doc.contents) = Len(st.loaded) - 1
                  /\ ~HasKey(st.doc.contents, st.file, st.external)
            /\ (procs.writer = p /\ st.pc = "done" /\ st.result = "ok") =>
                  manifest = st.doc
            /\ (procs.writer = p /\ st.pc = "writing") => manifest = Truncated

\* C25 witness: two processes added two distinct keys at the same time, both
\* calls reported success, and the manifest holds only one of the two.
C25_LostUpdate ==
    /\ \A p \in Procs : /\ procs.st[p].op = "add"
                        /\ procs.st[p].pc = "done"
                        /\ procs.st[p].result = "ok"
    /\ procs.st[1].module # procs.st[2].module
    /\ Len(manifest.contents) = 1
    /\ manifest.contents[1].filename \in {procs.st[1].module, procs.st[2].module}

\* C26: under every interleaving of the loads and saves of concurrent add
\* and remove calls, starting from a manifest without duplicate keys, no
\* manifest ever written and no document about to be written holds two
\* descriptors with the same (filename, external) key.
C26_RaceKeepsKeysUnique ==
    /\ NoDuplicateKeys(manifest.contents)
    /\ \A p \in Procs : NoDuplicateKeys(procs.st[p].doc.contents)

\* C26 witness: two processes added the same key at the same time, both
\* calls reported success, and the manifest holds the key once.
C26_SameKeyAddedTwiceOnce ==
    /\ \A p \in Procs : /\ procs.st[p].op = "add"
                        /\ procs.st[p].pc = "done"
                        /\ procs.st[p].result = "ok"
    /\ procs.st[1].module = procs.st[2].module
    /\ procs.st[1].found = procs.st[2].found
    /\ manifest.contents = <<Descriptor(procs.st[1].module, FALSE)>>

====
